---------------------------- MODULE Spec2Model ----------------------------
(***************************************************************************)
(* A model of src/main.py: the HTTP client (make_request), the user        *)
(* resolver (get_user_id), the media lister (get_user_media), the media    *)
(* downloader (download_media) and the orchestrator (main).                *)
(*                                                                         *)
(* JSON documents and the Python values made from them are tagged records: *)
(* the tag k tells null/None, strings, numbers, lists and dicts apart, so  *)
(* that a subscript or a .get() behaves as Python's does on each of them.  *)
(* A Python evaluation that may raise yields [exc, val]: exc is "none" or  *)
(* the name of the exception raised.                                       *)
(***************************************************************************)
EXTENDS Naturals, Integers, Sequences, FiniteSets, TLC

VARIABLES
    pc,              \* position of main(): start, resolve, list, mkdirs, download, write, done
    sys_argv,        \* sys.argv, the program name first
    username,        \* main's username
    count,           \* main's count
    user_response,   \* what the network answered to the "user" request
    user_id,         \* main's user_id
    media_response,  \* what the network answered to the "user-media" request
    sent,            \* the requests make_request issued: endpoint and params
    datas,           \* main's datas, the list get_user_media returned
    idx,             \* position of the for loop of main over datas (1-based)
    attempts,        \* the calls of download_media made so far, in order
    fs,              \* the filesystem: directories made and files written
    manifest,        \* the content json.dump wrote to data.json, JNull before
    raised,          \* the exception that escaped main(), or "none"
    exit_code        \* the process's exit status (JNum), JNull while it runs

vars == <<pc, sys_argv, username, count, user_response, user_id, media_response,
          sent, datas, idx, attempts, fs, manifest, raised, exit_code>>

----------------------------------------------------------------------------
(* Bounds of the model. *)

\* The longest entries sequence of a "user-media" response.
MaxEntries == 3

\* The longest variants list of a video entity.
MaxVariants == 3

----------------------------------------------------------------------------
(* Python and JSON values. *)

JNull == [k |-> "null"]
JStr(s) == [k |-> "str", s |-> s]
JNum(n) == [k |-> "num", n |-> n]
JArr(a) == [k |-> "arr", a |-> a]
JObj(o) == [k |-> "obj", o |-> o]

EmptyObj == JObj([x \in {} |-> JNull])

\* A dict of one key.
Obj1(key, v) == JObj([x \in {key} |-> v])

\* Subscript keys: d['name'] and l[index].
K(name) == [name |-> name]
I(index) == [index |-> index]

Ok(v) == [exc |-> "none", val |-> v]
Raise(e) == [exc |-> e, val |-> JNull]

\* Python's v[key]: KeyError for a dict without the key, IndexError for a list
\* index out of range, TypeError for None, a number, a str subscripted by a
\* name, or a list subscripted by a name.  (A str subscripted by an index does
\* not occur on the paths below: no segment modelled holds a str.)
Subscript(v, key) ==
    CASE v.k = "obj" ->
            IF "name" \in DOMAIN key
            THEN IF key.name \in DOMAIN v.o THEN Ok(v.o[key.name]) ELSE Raise("KeyError")
            ELSE Raise("KeyError")
      [] v.k = "arr" ->
            IF "index" \in DOMAIN key
            THEN IF key.index >= 0 /\ key.index < Len(v.a)
                 THEN Ok(v.a[key.index + 1])
                 ELSE Raise("IndexError")
            ELSE Raise("TypeError")
      [] v.k \in {"null", "num"} -> Raise("TypeError")
      [] v.k = "str" /\ "name" \in DOMAIN key -> Raise("TypeError")

\* Python's v[p1][p2]...[pn], left to right; the first exception ends it.
RECURSIVE Walk(_, _)
Walk(v, path) ==
    IF path = <<>> THEN Ok(v)
    ELSE LET r == Subscript(v, Head(path))
         IN  IF r.exc # "none" THEN r ELSE Walk(r.val, Tail(path))

\* Python's d.get(key, default) on a dict d.
PyGet(d, key, default) ==
    CASE d.k = "obj" -> IF key \in DOMAIN d.o THEN d.o[key] ELSE default

\* Python's d.get(key) on a dict d: None when the key is absent.
PyGet1(d, key) == PyGet(d, key, JNull)

\* Python's truth value of a list, a dict, None, a str.
Truthy(v) ==
    CASE v.k = "arr" -> v.a # <<>>
      [] v.k = "obj" -> DOMAIN v.o # {}
      [] v.k = "null" -> FALSE
      [] v.k = "str" -> v.s # ""
      [] v.k = "num" -> v.n # 0

----------------------------------------------------------------------------
(* make_request *)

\* The status make_request reports when `response` is falsy.
DefaultStatus == 500

\* requests.Response.__bool__ is Response.ok: raise_for_status() would not raise,
\* which it does for 400 <= status < 600.
ResponseOk(status) == ~(400 <= status /\ status < 600)

\* make_request(endpoint, params) when the network answers `http`:
\*   [kind |-> "no_response"]                 requests.get raises (connection, DNS, timeout)
\*   [kind |-> "response", status, body]      a response; body is what .json() returns
\*                                            (the vendor's bodies are JSON documents)
\* The result is [exc, data, status_code, error].

\* The except clause of make_request (line 39), reached with `response` bound:
\* the status reported is response.status_code if `response` is truthy, else 500.
ExceptClause(http) ==
    [exc |-> "none", data |-> JNull,
     status_code |-> IF ResponseOk(http.status) THEN http.status ELSE DefaultStatus,
     error |-> JStr("HTTPError")]

\* When requests.get raises, `response` is unbound in the except clause, and
\* evaluating it raises UnboundLocalError, which is no RequestException and
\* leaves make_request.
make_request(http) ==
    IF http.kind = "no_response"
    THEN [exc |-> "UnboundLocalError", data |-> JNull, status_code |-> 0, error |-> JNull]
    ELSE IF ~ResponseOk(http.status)
         THEN ExceptClause(http)
         ELSE [exc |-> "none", data |-> http.body, status_code |-> http.status,
               error |-> JNull]

----------------------------------------------------------------------------
(* get_user_id *)

UserIdPath == <<K("result"), K("data"), K("user"), K("result"), K("rest_id")>>

\* get_user_id(username) when the network answers `http`: [exc, val].
get_user_id(http) ==
    LET r == make_request(http)
    IN  IF r.exc # "none" THEN Raise(r.exc)
        ELSE IF r.status_code # 200 THEN Ok(JNull)
        ELSE LET w == Walk(r.data, UserIdPath)
             IN  IF w.exc = "KeyError" THEN Ok(JNull) ELSE w

----------------------------------------------------------------------------
(* get_user_media *)

MediaPath == <<K("result"), K("timeline"), K("instructions"), I(1), K("entries")>>

\* x.get('bitrate', 0) of a variant.
Bitrate(v) == PyGet(v, "bitrate", JNum(0)).n

\* Python's max(seq, key=bitrate) on a non-empty list: the first element whose
\* key is not exceeded by any other.
FirstVariant(seq) == seq[1]

MaxByBitrate(seq) ==
    LET best == CHOOSE i \in 1..Len(seq) :
                    /\ \A j \in 1..Len(seq) : Bitrate(seq[j]) <= Bitrate(seq[i])
                    /\ \A j \in 1..(i - 1) : Bitrate(seq[j]) < Bitrate(seq[i])
    IN  seq[best]

\* The filter of the list comprehension of line 118.
IsMp4(v) == Subscript(v, K("content_type")).val = JStr("video/mp4")

\* Lines 116-120: the media_url of a media entity whose type is "video": [exc, val].
\* v['content_type'] and [...]['url'] raise KeyError on a variant without the key.
VideoUrl(entity) ==
    LET variants == PyGet(PyGet(entity, "video_info", EmptyObj), "variants", JArr(<<>>)).a
        mp4_variants == SelectSeq(variants, IsMp4)
    IN  IF \E i \in 1..Len(variants) : Subscript(variants[i], K("content_type")).exc # "none"
        THEN Raise("KeyError")
        ELSE IF mp4_variants # <<>>
             THEN Subscript(MaxByBitrate(mp4_variants), K("url"))
             ELSE Ok(JNull)

\* Lines 113-120: media_url starts as None and is set for a video only.
MediaUrl(media_type, entity) ==
    IF media_type = JStr("video") THEN VideoUrl(entity) ELSE Ok(JNull)

\* The extended_entities.media list the loop body reads from an entry whose
\* entryType is "TimelineTimelineItem" (lines 107-108).
MediaEntities(content) ==
    LET result == PyGet(PyGet(PyGet(content, "itemContent", EmptyObj),
                              "tweet_results", EmptyObj), "result", EmptyObj)
    IN  PyGet(PyGet(PyGet(result, "legacy", EmptyObj), "extended_entities", EmptyObj),
              "media", JArr(<<>>))

\* Whether the loop body `continue`s on this entry (lines 103-111).
Skipped(entry) ==
    LET content == PyGet(entry, "content", EmptyObj)
    IN  \/ PyGet1(content, "entryType") # JStr("TimelineTimelineItem")
        \/ ~Truthy(MediaEntities(content))

\* The dict appended to final_data for an entry that is not skipped (lines
\* 113-131): [exc, val], val the record.
MakeRecord(entry, full_counter) ==
    LET content == PyGet(entry, "content", EmptyObj)
        result == PyGet(PyGet(PyGet(content, "itemContent", EmptyObj),
                              "tweet_results", EmptyObj), "result", EmptyObj)
        media_entities == MediaEntities(content)
        media_type == PyGet1(media_entities.a[1], "type")
        media_url == MediaUrl(media_type, media_entities.a[1])
        created_at == PyGet1(PyGet(result, "legacy", EmptyObj), "created_at")
        full_text == PyGet1(PyGet(result, "legacy", EmptyObj), "full_text")
    IN  IF media_url.exc # "none" THEN media_url
        ELSE Ok([id |-> full_counter, created_at |-> created_at, text |-> full_text,
                 media_type |-> media_type, media_url |-> media_url.val])

\* The counter after an emitted record (line 132).
NextCounter(full_counter) == full_counter + 1

\* The for loop of lines 102-132 over the entries left: [exc, val], val the
\* final_data list (a JArr of records).
RECURSIVE EntryLoopCountsSkipped(_, _, _)
EntryLoopCountsSkipped(entries, final_data, full_counter) ==
    IF entries = <<>> THEN Ok(JArr(final_data))
    ELSE IF Skipped(Head(entries))
         THEN EntryLoopCountsSkipped(Tail(entries), final_data, NextCounter(full_counter))
         ELSE LET rec == MakeRecord(Head(entries), full_counter)
              IN  IF rec.exc # "none" THEN rec
                  ELSE EntryLoopCountsSkipped(Tail(entries), Append(final_data, rec.val),
                                              NextCounter(full_counter))

RECURSIVE EntryLoop(_, _, _)
EntryLoop(entries, final_data, full_counter) ==
    IF entries = <<>> THEN Ok(JArr(final_data))
    ELSE IF Skipped(Head(entries))
         THEN EntryLoop(Tail(entries), final_data, full_counter)
         ELSE LET rec == MakeRecord(Head(entries), full_counter)
              IN  IF rec.exc # "none" THEN rec
                  ELSE EntryLoop(Tail(entries), Append(final_data, rec.val),
                                 NextCounter(full_counter))

\* get_user_media(user_id, count) when the network answers `http`: [exc, val],
\* val the list of records or JNull for None.
get_user_media(http) ==
    LET r == make_request(http)
    IN  IF r.exc # "none" THEN Raise(r.exc)
        ELSE IF r.status_code # 200 THEN Ok(JNull)
        ELSE LET w == Walk(r.data, MediaPath)
             IN  IF w.exc \in {"KeyError", "IndexError"} THEN Ok(JNull)
                 ELSE IF w.exc # "none" THEN w
                 ELSE EntryLoop(w.val.a, <<>>, 1)

----------------------------------------------------------------------------
(* download_media *)

\* download_media(url, file_name, media_type), given whether the upstream
\* server would deliver the media at a usable url: whether the file is written.
\* With url None requests.get raises MissingSchema, a RequestException, and
\* yt_dlp raises too; both are caught.  Nothing is raised to the caller.
download_media(url, media_type, upstream_ok) ==
    IF media_type = "photo" THEN url # JNull /\ upstream_ok
    ELSE IF media_type = "video" THEN url # JNull /\ upstream_ok
    ELSE FALSE

----------------------------------------------------------------------------
(* main: argument parsing *)

\* int(s) on the argument strings of the model; a string outside the table
\* raises ValueError.
IntLiterals ==
    [s \in {"0", "1", "2", "5"} |->
        CASE s = "0" -> 0 [] s = "1" -> 1 [] s = "2" -> 2 [] s = "5" -> 5]

\* str(n) of a count: the decimal literal int() reads back.
StrOfInt(n) == CHOOSE s \in DOMAIN IntLiterals : IntLiterals[s] = n

\* str(v) of a str or an int.
PyStr(v) == CASE v.k = "str" -> v.s [] v.k = "num" -> StrOfInt(v.n)

\* The default count of main (line 170).
DefaultCount == 5

\* sys.argv[i], Python's 0-based index into a TLA+ sequence.
Argv(argv, i) == argv[i + 1]

\* Lines 161-167: the usage test.
UsageError(argv) ==
    Len(argv) < 3 \/ Argv(argv, 1) \notin {"--username", "-u"}

\* Lines 170-176: [exc, val], exc "exit" for the sys.exit(1) of line 176.
ParseCount(argv) ==
    IF Len(argv) > 3 /\ Argv(argv, 3) \in {"--count", "-c"}
    THEN IF Len(argv) < 5 THEN Raise("exit")                          \* IndexError
         ELSE IF Argv(argv, 4) \notin DOMAIN IntLiterals THEN Raise("exit")  \* ValueError
         ELSE Ok(IntLiterals[Argv(argv, 4)])
    ELSE Ok(DefaultCount)

----------------------------------------------------------------------------
(* What the environment supplies: the command line and the vendor's answers. *)

ArgvChoices ==
    { <<"main.py">>,
      <<"main.py", "-u">>,
      <<"main.py", "-x", "alice">>,
      <<"main.py", "-u", "alice">>,
      <<"main.py", "--username", "alice", "--count", "2">>,
      <<"main.py", "-u", "alice", "-c", "0">>,
      <<"main.py", "-u", "alice", "-c">>,
      <<"main.py", "-u", "alice", "-c", "abc">> }

\* A container in which subscripting by `key` yields v.
Wrap(key, v) ==
    IF "name" \in DOMAIN key THEN Obj1(key.name, v)
    ELSE JArr([j \in 1..(key.index + 1) |-> IF j = key.index + 1 THEN v ELSE EmptyObj])

\* The document in which `path` leads to `leaf`.
RECURSIVE Chain(_, _)
Chain(path, leaf) ==
    IF path = <<>> THEN leaf ELSE Wrap(Head(path), Chain(Tail(path), leaf))

\* The values that lack `key`: null, a dict without the key, a list too short.
Breakers(key) ==
    IF "name" \in DOMAIN key THEN {JNull, EmptyObj}
    ELSE {JNull, JArr(<<>>), JArr(<<EmptyObj>>)}

\* The documents in which `path` is absent at some segment.
Broken(path) ==
    UNION { { Chain(SubSeq(path, 1, d - 1), b) : b \in Breakers(path[d]) } :
            d \in 1..Len(path) }

NoResponse == [kind |-> "no_response", status |-> 0, body |-> JNull]
Response(status, body) == [kind |-> "response", status |-> status, body |-> body]

UserBody == Chain(UserIdPath, JStr("44196397"))

\* The answers to the "user" request.
HttpUser ==
    {NoResponse, Response(404, JNull), Response(503, JNull), Response(201, UserBody)}
    \cup { Response(200, b) : b \in {UserBody} \cup Broken(UserIdPath) }

\* A timeline entry that is a post, with the given legacy object.
Tweet(legacy) ==
    Obj1("content",
         JObj([entryType |-> JStr("TimelineTimelineItem"),
               itemContent |-> Obj1("tweet_results", Obj1("result", Obj1("legacy", legacy)))]))

Legacy(text, media) ==
    JObj([created_at |-> JStr("Mon Jan 01 00:00:00 +0000 2024"),
          full_text |-> JStr(text),
          extended_entities |-> Obj1("media", JArr(media))])

Variant(content_type, bitrate, url) ==
    JObj([content_type |-> JStr(content_type), bitrate |-> JNum(bitrate), url |-> JStr(url)])

\* A variant without a bitrate, as the vendor's playlist variants are.
VariantNoBitrate(content_type, url) ==
    JObj([content_type |-> JStr(content_type), url |-> JStr(url)])

VideoEntity(variants) ==
    JObj([type |-> JStr("video"), video_info |-> Obj1("variants", JArr(variants))])

CursorEntry == Obj1("content", Obj1("entryType", JStr("TimelineTimelineCursor")))
TextEntry ==
    Tweet(JObj([created_at |-> JStr("Mon Jan 01 00:00:00 +0000 2024"),
                full_text |-> JStr("text post")]))
PhotoEntry ==
    Tweet(Legacy("photo post",
                 <<JObj([type |-> JStr("photo"), media_url_https |-> JStr("p.jpg")])>>))
VideoEntry ==
    Tweet(Legacy("video post",
                 <<VideoEntity(<<Variant("video/mp4", 500, "v500.mp4"),
                                 Variant("video/mp4", 1200, "v1200.mp4"),
                                 Variant("video/webm", 2000, "v2000.webm")>>)>>))
PlaylistEntry ==
    Tweet(Legacy("playlist post",
                 <<VideoEntity(<<VariantNoBitrate("application/x-mpegURL", "v.m3u8")>>)>>))
GifEntry ==
    Tweet(Legacy("gif post",
                 <<JObj([type |-> JStr("animated_gif"),
                         video_info |-> Obj1("variants",
                                             JArr(<<Variant("video/mp4", 0, "g.mp4")>>))])>>))

EntryKinds == {CursorEntry, TextEntry, PhotoEntry, VideoEntry, PlaylistEntry, GifEntry}

\* The sequences over S of length at most n.
SeqsUpTo(S, n) == UNION { [1..m -> S] : m \in 0..n }

MediaBody(entries) == Chain(MediaPath, JArr(entries))

\* The answers to the "user-media" request.
HttpMedia ==
    {NoResponse, Response(404, JNull), Response(503, JNull), Response(201, MediaBody(<<>>))}
    \cup { Response(200, b) : b \in Broken(MediaPath) }
    \cup { Response(200, MediaBody(es)) : es \in SeqsUpTo(EntryKinds, MaxEntries) }

----------------------------------------------------------------------------
(* main *)

\* Paths under medias/{username}: a directory, or the file `stem``id`.`ext` in it.
Dir(user, sub) == [user |-> user, sub |-> sub, stem |-> "", id |-> 0, ext |-> ""]
PhotoFile(user, id) == [user |-> user, sub |-> "photos", stem |-> "", id |-> id, ext |-> "jpg"]
VideoFile(user, id) ==
    [user |-> user, sub |-> "videos", stem |-> "video_", id |-> id, ext |-> "mp4"]
DataJson(user) == [user |-> user, sub |-> "", stem |-> "data", id |-> 0, ext |-> "json"]

\* json.dump of one record: the dict as a JSON object, the id as a number.
RecordToJson(d) ==
    JObj([id |-> JNum(d.id), created_at |-> d.created_at, text |-> d.text,
          media_type |-> d.media_type, media_url |-> d.media_url])

\* json.dump(datas): the JSON array of the records, in list order.
ToJson(list) == JArr([i \in 1..Len(list.a) |-> RecordToJson(list.a[i])])

Init ==
    /\ pc = "start"
    /\ sys_argv \in ArgvChoices
    /\ username = JNull
    /\ count = JNull
    /\ user_response = JNull
    /\ user_id = JNull
    /\ media_response = JNull
    /\ sent = <<>>
    /\ datas = JNull
    /\ idx = 1
    /\ attempts = <<>>
    /\ fs = {}
    /\ manifest = JNull
    /\ raised = "none"
    /\ exit_code = JNull

ExitWrongCode == pc' = "done" /\ exit_code' = JNum(0) /\ raised' = "none"

\* sys.exit(1).
Exit1 == pc' = "done" /\ exit_code' = JNum(1) /\ raised' = "none"

\* An exception leaves main(): the interpreter prints the traceback and ends
\* the process with status 1.
Crash(exc) == pc' = "done" /\ exit_code' = JNum(1) /\ raised' = exc

\* Lines 161-176.
ParseArgs ==
    /\ pc = "start"
    /\ IF UsageError(sys_argv) \/ ParseCount(sys_argv).exc # "none"
       THEN Exit1 /\ UNCHANGED <<username, count>>
       ELSE /\ username' = JStr(Argv(sys_argv, 2))
            /\ count' = JNum(ParseCount(sys_argv).val)
            /\ pc' = "resolve"
            /\ UNCHANGED <<exit_code, raised>>
    /\ UNCHANGED <<sys_argv, user_response, user_id, media_response, sent, datas, idx,
                   attempts, fs, manifest>>

\* Lines 178-180.
Resolve ==
    /\ pc = "resolve"
    /\ \E http \in HttpUser :
        LET r == get_user_id(http)
        IN  /\ user_response' = http
            /\ sent' = Append(sent, [endpoint |-> "user", username |-> username.s])
            /\ IF r.exc # "none" THEN Crash(r.exc) /\ UNCHANGED user_id
               ELSE /\ user_id' = r.val
                    /\ IF r.val = JNull THEN Exit1
                       ELSE pc' = "list" /\ UNCHANGED <<exit_code, raised>>
    /\ UNCHANGED <<sys_argv, username, count, media_response, datas, idx, attempts, fs,
                   manifest>>

\* Lines 182-184, the vendor's answer drawn from `answers`.
ListFrom(answers) ==
    /\ pc = "list"
    /\ \E http \in answers :
        LET r == get_user_media(http)
        IN  /\ media_response' = http
            /\ sent' = Append(sent, [endpoint |-> "user-media", user |-> PyStr(user_id),
                                     count |-> StrOfInt(count.n)])
            /\ IF r.exc # "none" THEN Crash(r.exc) /\ UNCHANGED datas
               ELSE /\ datas' = r.val
                    /\ IF r.val = JNull THEN Exit1
                       ELSE pc' = "mkdirs" /\ UNCHANGED <<exit_code, raised>>
    /\ UNCHANGED <<sys_argv, username, count, user_response, user_id, idx, attempts, fs,
                   manifest>>

List == ListFrom(HttpMedia)

\* Lines 186-192.
MakeDirs ==
    /\ pc = "mkdirs"
    /\ fs' = fs \cup {Dir(username.s, ""), Dir(username.s, "photos"), Dir(username.s, "videos")}
    /\ pc' = "download"
    /\ UNCHANGED <<sys_argv, username, count, user_response, user_id, media_response, sent,
                   datas, idx, attempts, manifest, raised, exit_code>>

\* One call of download_media made by main: the log entry and the filesystem after it.
Attempt(data, file_name, media_type, upstream_ok) ==
    LET written == download_media(data.media_url, media_type, upstream_ok)
    IN  /\ attempts' = Append(attempts, [id |-> data.id, url |-> data.media_url,
                                         file_name |-> file_name, media_type |-> media_type,
                                         upstream_ok |-> upstream_ok, written |-> written])
        /\ fs' = IF written THEN fs \cup {file_name} ELSE fs

DownloadNextAborting ==
    /\ pc = "download"
    /\ idx <= Len(datas.a)
    /\ LET data == datas.a[idx]
           failed == attempts' # <<>> /\ ~attempts'[Len(attempts')].written
       IN  IF data.media_type = JStr("photo")
           THEN \E upstream_ok \in BOOLEAN :
                    /\ Attempt(data, PhotoFile(username.s, data.id), "photo", upstream_ok)
                    /\ IF failed THEN Crash("RequestException")
                       ELSE UNCHANGED <<pc, raised, exit_code>>
           ELSE IF data.media_type = JStr("video")
           THEN \E upstream_ok \in BOOLEAN :
                    /\ Attempt(data, VideoFile(username.s, data.id), "video", upstream_ok)
                    /\ IF failed THEN Crash("DownloadError")
                       ELSE UNCHANGED <<pc, raised, exit_code>>
           ELSE UNCHANGED <<attempts, fs, pc, raised, exit_code>>
    /\ idx' = idx + 1
    /\ UNCHANGED <<sys_argv, username, count, user_response, user_id, media_response,
                   sent, datas, manifest>>

\* One iteration of the loop of lines 194-198.
DownloadNext ==
    /\ pc = "download"
    /\ idx <= Len(datas.a)
    /\ LET data == datas.a[idx]
       IN  IF data.media_type = JStr("photo")
           THEN \E upstream_ok \in BOOLEAN :
                    Attempt(data, PhotoFile(username.s, data.id), "photo", upstream_ok)
           ELSE IF data.media_type = JStr("video")
           THEN \E upstream_ok \in BOOLEAN :
                    Attempt(data, VideoFile(username.s, data.id), "video", upstream_ok)
           ELSE UNCHANGED <<attempts, fs>>
    /\ idx' = idx + 1
    /\ UNCHANGED <<pc, sys_argv, username, count, user_response, user_id, media_response,
                   sent, datas, manifest, raised, exit_code>>

WriteManifestEarly ==
    /\ pc = "download"
    /\ fs' = fs \cup {DataJson(username.s)}
    /\ manifest' = ToJson(datas)
    /\ pc' = "done"
    /\ exit_code' = JNum(0)
    /\ UNCHANGED <<sys_argv, username, count, user_response, user_id, media_response, sent,
                   datas, idx, attempts, raised>>

\* Lines 200-201, and the return of main().
WriteManifest ==
    /\ pc = "download"
    /\ idx > Len(datas.a)
    /\ fs' = fs \cup {DataJson(username.s)}
    /\ manifest' = ToJson(datas)
    /\ pc' = "done"
    /\ exit_code' = JNum(0)
    /\ UNCHANGED <<sys_argv, username, count, user_response, user_id, media_response, sent,
                   datas, idx, attempts, raised>>

Next == ParseArgs \/ Resolve \/ List \/ MakeDirs \/ DownloadNext \/ WriteManifest

Spec == Init /\ [][Next]_vars

\* main() is sequential code: it takes its next step whenever it has one.
FairSpec == Spec /\ WF_vars(Next)

----------------------------------------------------------------------------
(* The variant selection of get_user_media on its own: the lister applied to  *)
(* a response of one video post, over every variants list up to MaxVariants. *)

Bitrates == {500, 1200, 2000}

\* What a variant declares: its content type and its bitrate, if any.
VariantShapes ==
    { [content_type |-> c, has_bitrate |-> TRUE, bitrate |-> b] :
        c \in {"video/mp4", "video/webm"}, b \in Bitrates }
    \cup { [content_type |-> c, has_bitrate |-> FALSE, bitrate |-> 0] :
             c \in {"video/mp4", "video/webm"} }

\* The url of the variant at each position of a variants list.
VariantUrls == <<"variant1", "variant2", "variant3", "variant4", "variant5">>

ShapedVariant(shape, url) ==
    IF shape.has_bitrate THEN Variant(shape.content_type, shape.bitrate, url)
    ELSE VariantNoBitrate(shape.content_type, url)

VariantLists ==
    { [j \in 1..Len(f) |-> ShapedVariant(f[j], VariantUrls[j])] :
        f \in SeqsUpTo(VariantShapes, MaxVariants) }

HttpVideo ==
    { Response(200, MediaBody(<<Tweet(Legacy("video post", <<VideoEntity(vs)>>))>>)) :
        vs \in VariantLists }

\* main() about to list, as the default command line and a resolved user leave it.
InitVideo ==
    /\ pc = "list"
    /\ sys_argv = <<"main.py", "-u", "alice">>
    /\ username = JStr("alice")
    /\ count = JNum(DefaultCount)
    /\ user_response = Response(200, UserBody)
    /\ user_id = JStr("44196397")
    /\ media_response = JNull
    /\ sent = <<[endpoint |-> "user", username |-> "alice"]>>
    /\ datas = JNull
    /\ idx = 1
    /\ attempts = <<>>
    /\ fs = {}
    /\ manifest = JNull
    /\ raised = "none"
    /\ exit_code = JNull

ListVideo == ListFrom(HttpVideo)

SpecVideo == InitVideo /\ [][ListVideo]_vars

----------------------------------------------------------------------------
(* The claims. *)

\* The entries of the "user-media" response received, when it has status 200
\* and holds the documented path; <<>> otherwise.
ReceivedEntries ==
    IF media_response # JNull /\ media_response.kind = "response"
       /\ media_response.status = 200
       /\ Walk(media_response.body, MediaPath).exc = "none"
    THEN Walk(media_response.body, MediaPath).val.a
    ELSE <<>>

HasEntries ==
    /\ media_response # JNull /\ media_response.kind = "response"
    /\ media_response.status = 200
    /\ Walk(media_response.body, MediaPath).exc = "none"

LegacyPath ==
    <<K("content"), K("itemContent"), K("tweet_results"), K("result"), K("legacy")>>

\* The media sequence of an entry, <<>> when it has none.
MediaOf(e) ==
    LET m == Walk(e, LegacyPath \o <<K("extended_entities"), K("media")>>)
    IN  IF m.exc = "none" /\ m.val.k = "arr" THEN m.val.a ELSE <<>>

\* A qualifying entry: the entry-type tag is "TimelineTimelineItem" and the
\* media sequence is not empty.
Qualifying(e) ==
    /\ Walk(e, <<K("content"), K("entryType")>>) = Ok(JStr("TimelineTimelineItem"))
    /\ MediaOf(e) # <<>>

QualifyingEntries == SelectSeq(ReceivedEntries, Qualifying)

\* C1: for a 200 "user-media" response whose entries hold N qualifying entries
\* among any others, get_user_media returns exactly N records, the i-th with
\* id i and made from the i-th qualifying entry: skipped entries use no id.
C1_SequentialIds ==
    HasEntries =>
        /\ raised = "none"
        /\ datas # JNull
        /\ Len(datas.a) = Len(QualifyingEntries)
        /\ \A i \in 1..Len(datas.a) :
              /\ datas.a[i].id = i
              /\ Ok(datas.a[i].text) = Walk(QualifyingEntries[i], LegacyPath \o <<K("full_text")>>)
              /\ Ok(datas.a[i].media_type) = Subscript(MediaOf(QualifyingEntries[i])[1], K("type"))

\* C1's case: two qualifying entries with a skipped one before or between them.
C1_Witness ==
    /\ ReceivedEntries \in {<<PhotoEntry, TextEntry, VideoEntry>>,
                            <<CursorEntry, PhotoEntry, VideoEntry>>}
    /\ datas # JNull
    /\ Len(datas.a) = 2
    /\ datas.a[2].id = 2

\* The variants of a media entity, and what each declares.
VariantsOf(entity) ==
    LET v == Walk(entity, <<K("video_info"), K("variants")>>)
    IN  IF v.exc = "none" THEN v.val.a ELSE <<>>

DeclaredMp4(v) == "content_type" \in DOMAIN v.o /\ v.o.content_type = JStr("video/mp4")
BitrateOrZero(v) == IF "bitrate" \in DOMAIN v.o THEN v.o.bitrate.n ELSE 0

\* C2: the media_url of every video record is the url of a "video/mp4" variant
\* of its entry whose bitrate (0 when absent) is at least that of every other
\* "video/mp4" variant; a variant of another content type is never selected,
\* and without any "video/mp4" variant no url is selected.
C2_HighestMp4 ==
    (HasEntries /\ datas # JNull /\ Len(datas.a) = Len(QualifyingEntries)) =>
        \A i \in 1..Len(datas.a) :
            datas.a[i].media_type = JStr("video") =>
                LET vs == VariantsOf(MediaOf(QualifyingEntries[i])[1])
                    mp4 == { j \in 1..Len(vs) : DeclaredMp4(vs[j]) }
                IN  IF mp4 = {} THEN datas.a[i].media_url = JNull
                    ELSE \E j \in mp4 :
                            /\ datas.a[i].media_url = vs[j].o.url
                            /\ \A l \in mp4 : BitrateOrZero(vs[l]) <= BitrateOrZero(vs[j])

\* C2's case: mp4 500, mp4 1200 and webm 2000; the mp4 1200 variant is selected.
C2_Witness ==
    /\ ReceivedEntries =
          <<Tweet(Legacy("video post",
                <<VideoEntity(<<Variant("video/mp4", 500, VariantUrls[1]),
                                Variant("video/mp4", 1200, VariantUrls[2]),
                                Variant("video/webm", 2000, VariantUrls[3])>>)>>))>>
    /\ datas # JNull
    /\ Len(datas.a) = 1
    /\ datas.a[1].media_url = JStr(VariantUrls[2])

\* The responses make_request has received or failed to receive.
Answers == {user_response, media_response} \ {JNull}

PathAbsent(http, path) ==
    http.kind = "response" /\ http.status = 200 /\ Walk(http.body, path).exc # "none"

\* C3: for a 200 body in which the documented path is absent at some segment (a
\* missing key, index 1 out of range, or null in place of a container),
\* get_user_id and get_user_media return None and raise nothing.
C3_AbsentPathReturnsNone ==
    /\ (user_response # JNull /\ PathAbsent(user_response, UserIdPath))
          => (raised = "none" /\ user_id = JNull)
    /\ (media_response # JNull /\ PathAbsent(media_response, MediaPath))
          => (raised = "none" /\ datas = JNull)

IsDone == pc = "done"

\* Every download main() attempted met an upstream that would deliver.
AllUpstreamOk == \A j \in 1..Len(attempts) : attempts[j].upstream_ok

\* C4: when resolution and listing succeed and every upstream media fetch would
\* succeed, at the end each photo record i has its photos/{i}.jpg, each video
\* record i its videos/video_{i}.mp4, and data.json holds one element per
\* record with the media_type fields in list order.
C4_FilesAndManifest ==
    (IsDone /\ exit_code = JNum(0) /\ AllUpstreamOk) =>
        /\ \A i \in 1..Len(datas.a) :
              /\ datas.a[i].media_type = JStr("photo")
                    => PhotoFile(username.s, datas.a[i].id) \in fs
              /\ datas.a[i].media_type = JStr("video")
                    => VideoFile(username.s, datas.a[i].id) \in fs
        /\ manifest # JNull
        /\ Len(manifest.a) = Len(datas.a)
        /\ \A i \in 1..Len(datas.a) : manifest.a[i].o.media_type = datas.a[i].media_type

\* Whether the command line parses: -u/--username with a name, and a count
\* that is an integer when -c/--count is given.
ArgsParse ==
    /\ Len(sys_argv) >= 3
    /\ sys_argv[2] \in {"--username", "-u"}
    /\ (Len(sys_argv) >= 4 /\ sys_argv[4] \in {"--count", "-c"})
          => (Len(sys_argv) >= 5 /\ sys_argv[5] \in DOMAIN IntLiterals)

\* Resolution or listing was tried and gave no result (None, or an exception).
ResolutionFailed ==
    /\ user_response # JNull
    /\ LET r == get_user_id(user_response) IN r.exc # "none" \/ r.val = JNull
ListingFailed ==
    /\ media_response # JNull
    /\ LET r == get_user_media(media_response) IN r.exc # "none" \/ r.val = JNull

EarlyFailure == ~ArgsParse \/ ResolutionFailed \/ ListingFailed

OutputTree ==
    {Dir(username.s, ""), Dir(username.s, "photos"), Dir(username.s, "videos"),
     DataJson(username.s)}

\* C5: a run ends either with exit code 1, no directory made and no file
\* written, exactly when argument parsing, resolution or listing fails; or with
\* exit code 0, the directory tree made and data.json written, in every other
\* case, whatever the downloads did.  Until then there is no exit code.
C5_ExitCodes ==
    IF IsDone
    THEN \/ EarlyFailure /\ exit_code = JNum(1) /\ fs = {} /\ manifest = JNull
         \/ ~EarlyFailure /\ exit_code = JNum(0) /\ OutputTree \subseteq fs
              /\ manifest # JNull
    ELSE exit_code = JNull

\* C5's case: downloads were attempted, every one failed, and the run ended
\* with exit code 0 and data.json.
C5_Witness ==
    /\ IsDone
    /\ exit_code = JNum(0)
    /\ Len(attempts) >= 2
    /\ \A j \in 1..Len(attempts) : ~attempts[j].written
    /\ DataJson(username.s) \in fs

Is2xx(status) == 200 <= status /\ status < 300

\* C6: for a response with a non-2xx status s, make_request returns (None, s,
\* a non-empty error message): the status is the one received.
C6_StatusCarried ==
    \A http \in Answers :
        (http.kind = "response" /\ ~Is2xx(http.status)) =>
            LET r == make_request(http)
            IN  /\ r.exc = "none"
                /\ r.data = JNull
                /\ r.status_code = http.status
                /\ r.error # JNull /\ r.error # JStr("")

\* C7: when no response is received at all, make_request raises nothing and
\* returns (None, 500, error), so that the function calling it returns None and
\* main() ends through sys.exit(1).
C7_NoResponseIs500 ==
    \A http \in Answers :
        http.kind = "no_response" =>
            /\ make_request(http).exc = "none"
            /\ make_request(http).status_code = DefaultStatus
            /\ raised = "none"
            /\ IsDone /\ exit_code = JNum(1)

Attempted(id) == \E j \in 1..Len(attempts) : attempts[j].id = id

\* C8 as stated: when data.json is written, a download has been attempted for
\* every record in it, whatever its media_type.
C8_EveryRecordAttempted ==
    manifest # JNull =>
        \A i \in 1..Len(manifest.a) : Attempted(manifest.a[i].o.id.n)

\* C8 amended: when data.json is written, a download has been attempted for
\* every record in it whose media_type is "photo" or "video", with that
\* record's media_url and type.
C8_PhotoVideoAttempted ==
    manifest # JNull =>
        \A i \in 1..Len(manifest.a) :
            LET rec == manifest.a[i].o
            IN  rec.media_type \in {JStr("photo"), JStr("video")} =>
                    \E j \in 1..Len(attempts) :
                        /\ attempts[j].id = rec.id.n
                        /\ attempts[j].url = rec.media_url
                        /\ JStr(attempts[j].media_type) = rec.media_type

\* C8's case: data.json is written with a photo, a video and a record of
\* another type; the two downloads were attempted.
C8_Witness ==
    /\ manifest # JNull
    /\ Len(manifest.a) = 3
    /\ {manifest.a[i].o.media_type : i \in 1..3}
          = {JStr("photo"), JStr("video"), JStr("animated_gif")}
    /\ Len(attempts) = 2

IsPhotoOrVideo(d) == d.media_type \in {JStr("photo"), JStr("video")}

\* The ids main() must have tried to download, in list order.
ExpectedIds(list) ==
    LET sel == SelectSeq(list, IsPhotoOrVideo) IN [j \in 1..Len(sel) |-> sel[j].id]

AttemptedIds == [j \in 1..Len(attempts) |-> attempts[j].id]

\* C9: no failed download aborts the batch.  Once the download loop is entered,
\* whatever downloads fail, the run ends with every photo and video record
\* attempted in list order, nothing raised, and data.json holding the full
\* record sequence.
C9_BatchCompletes ==
    (pc = "download") ~>
        (/\ IsDone
         /\ raised = "none"
         /\ exit_code = JNum(0)
         /\ AttemptedIds = ExpectedIds(datas.a)
         /\ manifest = ToJson(datas)
         /\ DataJson(username.s) \in fs)

\* C9's case: the first download failed, a later one was still made and
\* succeeded, and data.json was written.
C9_Witness ==
    /\ IsDone
    /\ Len(attempts) >= 2
    /\ ~attempts[1].written
    /\ attempts[Len(attempts)].written
    /\ manifest = ToJson(datas)

\* C10: the lister returns at most `count` records, so that at most `count`
\* downloads are attempted and data.json holds at most `count` elements; with
\* no qualifying entry it returns an empty list, not None.
C10_AtMostCount ==
    /\ (datas # JNull) => Len(datas.a) <= count.n
    /\ (count # JNull) => Len(attempts) <= count.n
    /\ (manifest # JNull) => Len(manifest.a) <= count.n
    /\ (HasEntries /\ QualifyingEntries = <<>>) => datas = JArr(<<>>)

=============================================================================
